---- MODULE Spec2Model ----
(***************************************************************************)
(* Daily technical-indicator ETL: the price source (kline table), the      *)
(* feature engine (DailyFeatureETL.calculate_features), the orchestrator   *)
(* (etl_by_stock / etl_all_stocks), the two HTTP endpoints and the upsert  *)
(* sink (FeatureDaily.bulk_upsert_to_db) over the feature table.           *)
(*                                                                         *)
(* Representation.  A Python value is a record with a field k:             *)
(*   None                       [k |-> "none"]                             *)
(*   float NaN (pandas null)    [k |-> "nan"]                              *)
(*   a float                    an exact term, see the engine section      *)
(*   a bool                     [k |-> "bool", v |-> TRUE/FALSE]           *)
(*   a date string YYYY-MM-DD   [k |-> "str", m |-> month, d |-> day]      *)
(* A date (datetime / SQL DATE) is its day ordinal inside one year.        *)
(* Close prices are non-null integers (a well-formed price bar).           *)
(***************************************************************************)
EXTENDS Integers, Sequences, FiniteSets, TLC

VARIABLES
    kline,        \* the kline table: set of rows [id, stock_id, date, close]
    stock_ids,    \* the stock-info table, in the order its query returns it
    table,        \* the feature table: set of committed feature rows
    pc,           \* "idle": no request in service; "done": a request was served
    req,          \* the request served: endpoint and parameters
    response,     \* what the endpoint answered: [status, upserted, rows]
    fetchLog,     \* get_kline calls of the request: <<[stock_id, start_date, end_date]>>
    etlLog,       \* etl_by_stock calls of the request: <<[stock_id, raised, rows]>>
    sinkLog,      \* bulk_upsert_to_db calls of the request: <<[batch, fault, raised, ret, ops]>>
    tableBefore,  \* the feature table when the latest sink call started
    tableAtStart, \* the feature table when the request started
    clock,        \* datetime.now(), in ticks
    runs,         \* requests served so far (each draws a fresh uuid4)
    txn           \* requests served side by side: each one's write loop and session

vars == <<kline, stock_ids, table, pc, req, response, fetchLog, etlLog, sinkLog,
          tableBefore, tableAtStart, clock, runs, txn>>

----------------------------------------------------------------------------
(* Bounds of the model *)

MaxRuns == 2          \* requests served in one behaviour
MaxBars == 5          \* bars of "A" in the kline table the endpoints run on
MaxRows == 31         \* bars of the longest price series the engine is run on
CloseShapes == 2      \* close-price shapes tried per series
MaxFaultCall == 2     \* a database fault hits one of the first MaxFaultCall sink calls
MaxLen == 5           \* records of the longest list handed to the sink directly

(* Program constants *)

max_window == 30      \* etl_by_stock
ma_window == 5        \* rolling(window=5)
bb_window == 20       \* rolling(window=20)
bb_k == 2             \* bb_ma20 +/- 2 * bb_std20
span12 == 12
span26 == 26
span9 == 9

(* The endpoint's batch_size is 1000 in the program; the model runs the    *)
(* same loop with a scaled-down size so that multi-batch writes happen.    *)
batch_size == 3

----------------------------------------------------------------------------
(* Python values *)

None == [k |-> "none"]
NaN == [k |-> "nan"]
Bool(b) == [k |-> "bool", v |-> b]
Num(n, d) == [k |-> "num", n |-> n, d |-> d]      \* the rational n / d

\* pd.isnull
isnull(x) == x.k \in {"none", "nan"}

----------------------------------------------------------------------------
(* Dates.  One non-leap year; a date string is (month, day), a date is the *)
(* day ordinal within the year.                                            *)

MonthDays == <<31, 28, 31, 30, 31, 30, 31, 31, 30, 31, 30, 31>>

RECURSIVE DaysBefore(_)
DaysBefore(m) == IF m = 1 THEN 0 ELSE DaysBefore(m - 1) + MonthDays[m - 1]

DateStr(m, d) == [k |-> "str", m |-> m, d |-> d]

\* datetime.strptime(s, "%Y-%m-%d"), also the cast PostgreSQL applies to a
\* string compared with a DATE column
strptime(s) == DaysBefore(s.m) + s.d

\* datetime.strftime("%Y-%m-%d")
strftime(o) ==
    LET m == CHOOSE mm \in 1..12 : DaysBefore(mm) < o /\ o <= DaysBefore(mm) + MonthDays[mm]
    IN DateStr(m, o - DaysBefore(m))

\* Python truthiness of an optional date string
truthy(s) == s.k # "none"

----------------------------------------------------------------------------
(* The price source: the kline table and get_kline *)

Stocks == {"A", "B"}

\* Rows of a set ordered by (date, id) ascending.  ORDER BY date leaves the
\* order of equal dates open; the model takes insertion (id) order there.
RECURSIVE SortByDate(_)
SortByDate(S) ==
    IF S = {} THEN <<>>
    ELSE LET r == CHOOSE x \in S : \A y \in S :
                      x.date < y.date \/ (x.date = y.date /\ x.id <= y.id)
         IN <<r>> \o SortByDate(S \ {r})

\* faulty variant: the end_date filter is missing
get_klineNoUpperBound(kl, stock_id, start_date, end_date) ==
    SortByDate({r \in kl :
        /\ r.stock_id = stock_id
        /\ (truthy(start_date) => r.date >= strptime(start_date))})

\* get_kline(stock_id, start_date, end_date) on the kline table kl
get_kline(kl, stock_id, start_date, end_date) ==
    SortByDate({r \in kl :
        /\ r.stock_id = stock_id
        /\ (truthy(start_date) => r.date >= strptime(start_date))
        /\ (truthy(end_date) => r.date <= strptime(end_date))})

----------------------------------------------------------------------------
(* The feature engine: calculate_features.                                 *)
(* Floats are exact terms: Num(n, d) is n/d; "sqrt" is sqrt(n/d); "add",   *)
(* "sub", "mul", "div" are the float operations on terms; "ewm" is the     *)
(* recursive exponential mean (adjust=False) of the given span over the    *)
(* fetched bars first..last of the kline table (kept symbolic: its value   *)
(* is a rational with denominator (span+1)^(rows-1)).  Any operation on a  *)
(* NaN is NaN, and any comparison with a NaN is False, as in pandas.       *)

isnan(x) == x.k = "nan"

Add(a, b) == IF isnan(a) \/ isnan(b) THEN NaN ELSE [k |-> "add", a |-> a, b |-> b]
Sub(a, b) == IF isnan(a) \/ isnan(b) THEN NaN ELSE [k |-> "sub", a |-> a, b |-> b]
Mul(c, a) == IF isnan(a) THEN NaN ELSE [k |-> "mul", c |-> c, a |-> a]
Div(a, b) == IF isnan(a) \/ isnan(b) THEN NaN ELSE [k |-> "div", a |-> a, b |-> b]
Eps == [k |-> "eps"]                               \* the literal 1e-9

RECURSIVE WindowSum(_, _, _)
\* sum of close over the w rows ending at row i
WindowSum(df, i, w) == IF w = 0 THEN 0 ELSE df[i].close + WindowSum(df, i - 1, w - 1)

RECURSIVE WindowSq(_, _, _)
\* sum of close^2 over the w rows ending at row i
WindowSq(df, i, w) ==
    IF w = 0 THEN 0 ELSE df[i].close * df[i].close + WindowSq(df, i - 1, w - 1)

\* faulty variant: rolling(window=w, min_periods=1), a partial-window mean
RollingMeanPartial(df, i, w) ==
    IF i < w THEN Num(WindowSum(df, i, i), i) ELSE Num(WindowSum(df, i, w), w)

\* df['close'].rolling(window=w).mean() at row i (min_periods = window)
RollingMean(df, i, w) == IF i < w THEN NaN ELSE Num(WindowSum(df, i, w), w)

\* w * sum(x^2) - (sum x)^2: the sample variance times w (w - 1)
VarNum(df, i, w) == w * WindowSq(df, i, w) - WindowSum(df, i, w) * WindowSum(df, i, w)

\* df['close'].rolling(window=w).std() at row i (sample, ddof = 1)
RollingStd(df, i, w) ==
    IF i < w THEN NaN ELSE [k |-> "sqrt", n |-> VarNum(df, i, w), d |-> w * (w - 1)]

\* df[col].ewm(span=span, adjust=False).mean() at row i: defined from row 1
Ewm(col, span, df, i) ==
    [k |-> "ewm", col |-> col, span |-> span, first |-> df[1].id, last |-> df[i].id]

\* df['close'] > df['bb_upper20'] at row i, decided exactly:
\* c > S/w + bb_k sqrt(V / (w (w-1)))  iff  w c - S > 0 and (w c - S)^2 (w-1) > bb_k^2 w V
CloseAboveUpper(df, i, w) ==
    IF i < w THEN FALSE
    ELSE LET d == w * df[i].close - WindowSum(df, i, w)
         IN d > 0 /\ d * d * (w - 1) > bb_k * bb_k * w * VarNum(df, i, w)

\* df['close'] < df['bb_lower20'] at row i
CloseBelowLower(df, i, w) ==
    IF i < w THEN FALSE
    ELSE LET d == w * df[i].close - WindowSum(df, i, w)
         IN d < 0 /\ d * d * (w - 1) > bb_k * bb_k * w * VarNum(df, i, w)

\* one row of the frame calculate_features returns
FeatureFrameRow(df, i) ==
    LET close == Num(df[i].close, 1)
        ema12 == Ewm("close", span12, df, i)
        ema26 == Ewm("close", span26, df, i)
        macd_dif == Sub(ema12, ema26)
        macd_dea == Ewm("macd_dif", span9, df, i)
        bb_ma20 == RollingMean(df, i, bb_window)
        bb_std20 == RollingStd(df, i, bb_window)
        bb_upper20 == Add(bb_ma20, Mul(bb_k, bb_std20))
        bb_lower20 == Sub(bb_ma20, Mul(bb_k, bb_std20))
        bb_width20 == Sub(bb_upper20, bb_lower20)
    IN [date |-> df[i].date,
        close |-> close,
        ma5 |-> RollingMean(df, i, ma_window),
        ema12 |-> ema12,
        ema26 |-> ema26,
        macd_dif |-> macd_dif,
        macd_dea |-> macd_dea,
        macd_osc |-> Sub(macd_dif, macd_dea),
        bb_ma20 |-> bb_ma20,
        bb_std20 |-> bb_std20,
        bb_upper20 |-> bb_upper20,
        bb_lower20 |-> bb_lower20,
        bb_width20 |-> bb_width20,
        bb_pos20 |-> Div(Sub(close, bb_lower20), Add(bb_width20, Eps)),
        bb_break_up |-> Bool(CloseAboveUpper(df, i, bb_window)),
        bb_break_dn |-> Bool(CloseBelowLower(df, i, bb_window))]

\* calculate_features(stock_id, df): one row per input row, same order
calculate_features(stock_id, df) == [i \in 1..Len(df) |-> FeatureFrameRow(df, i)]

----------------------------------------------------------------------------
(* The orchestrator: DailyFeatureETL.etl_by_stock *)

\* faulty variant: the single-day window padded by max_window days
FetchWindowPadFull(start_date, end_date) ==
    IF start_date = end_date /\ start_date # None
    THEN <<strftime(strptime(start_date) - max_window), end_date>>
    ELSE <<start_date, end_date>>

\* the (start, end) handed to get_kline
FetchWindow(start_date, end_date) ==
    IF start_date = end_date /\ start_date # None
    THEN <<strftime(strptime(start_date) - (max_window - 1)), end_date>>
    ELSE <<start_date, end_date>>

\* None if pd.isnull(x) else x
NullToNone(x) == IF isnull(x) THEN None ELSE x

\* bool(x) if not pd.isnull(x) else None
FlagToNone(x) == IF ~isnull(x) THEN Bool(x.v) ELSE None

\* the dict etl_by_stock appends for one row of the frame
FeatureRecord(self, now, stock_id, row) ==
    [stock_id |-> stock_id,
     trade_date |-> row.date,
     ma5 |-> NullToNone(row.ma5),
     ema12 |-> NullToNone(row.ema12),
     ema26 |-> NullToNone(row.ema26),
     macd_dif |-> NullToNone(row.macd_dif),
     macd_dea |-> NullToNone(row.macd_dea),
     macd_osc |-> NullToNone(row.macd_osc),
     bb_ma20 |-> NullToNone(row.bb_ma20),
     bb_std20 |-> NullToNone(row.bb_std20),
     bb_upper20 |-> NullToNone(row.bb_upper20),
     bb_lower20 |-> NullToNone(row.bb_lower20),
     bb_width20 |-> NullToNone(row.bb_width20),
     bb_pos20 |-> NullToNone(row.bb_pos20),
     bb_break_up |-> FlagToNone(row.bb_break_up),
     bb_break_dn |-> FlagToNone(row.bb_break_dn),
     etl_run_id |-> self.etl_run_id,
     source_version |-> self.source_version,
     commit_sha |-> self.commit_sha,
     created_at |-> now,
     updated_at |-> now]

\* etl_by_stock(stock_id, start_date, end_date) when get_kline does not raise
etl_by_stock(self, now, kl, stock_id, start_date, end_date) ==
    LET w == FetchWindow(start_date, end_date)
        kline_objs == get_kline(kl, stock_id, w[1], w[2])
        df == calculate_features(stock_id, kline_objs)
    IN IF kline_objs = <<>> THEN <<>>
       ELSE [i \in 1..Len(df) |-> FeatureRecord(self, now, stock_id, df[i])]

----------------------------------------------------------------------------
(* The sink: FeatureDaily.bulk_upsert_to_db on the feature table.          *)
(* The table has PRIMARY KEY (stock_id, trade_date) and etl_run_id NOT     *)
(* NULL.  The statement is INSERT ... VALUES (dict_list) ON CONFLICT       *)
(* (stock_id, trade_date) DO UPDATE SET col = excluded.col for the non-key *)
(* columns of dict_list[0].                                                *)

KeyCols == {"stock_id", "trade_date"}

Key(r) == <<r.stock_id, r.trade_date>>

\* the keys of a set of rows
Keys(rows) == {Key(r) : r \in rows}

\* faulty variant: the provenance columns are left out of update_dict
UpdateColsIndicatorsOnly(dict_list) ==
    DOMAIN dict_list[1] \ (KeyCols \cup {"etl_run_id", "source_version", "commit_sha", "created_at"})

\* update_dict: the columns ON CONFLICT overwrites
UpdateCols(dict_list) == DOMAIN dict_list[1] \ KeyCols

\* faulty variant: SET col = COALESCE(excluded.col, col), an incoming null
\* keeps the stored value
ConflictUpdateCoalesce(existing, excluded, cols) ==
    [c \in DOMAIN existing |->
        IF c \in cols /\ (c \in {"created_at", "updated_at"} \/ excluded[c] # None)
        THEN excluded[c] ELSE existing[c]]

\* faulty variant: created_at is left out of the SET clause
ConflictUpdateKeepCreatedAt(existing, excluded, cols) ==
    [c \in DOMAIN existing |->
        IF c \in cols \ {"created_at"} THEN excluded[c] ELSE existing[c]]

\* the row an ON CONFLICT DO UPDATE leaves for an existing row
ConflictUpdate(existing, excluded, cols) ==
    [c \in DOMAIN existing |-> IF c \in cols THEN excluded[c] ELSE existing[c]]

\* faulty variant: a plain INSERT into a table without the primary key
UpsertRowNoConflict(rows, r, cols) == rows \cup {r}

\* one proposed row of the statement against the rows so far: it is inserted
\* when its key is free, else it overwrites the row holding the key
UpsertRow(rows, r, cols) ==
    IF \E x \in rows : Key(x) = Key(r)
    THEN {IF Key(x) = Key(r) THEN ConflictUpdate(x, r, cols) ELSE x : x \in rows}
    ELSE rows \cup {r}

\* faulty variant: only inserted rows are counted (ON CONFLICT DO NOTHING)
RowsAffectedInsertOnly(rows, r) == IF \E x \in rows : Key(x) = Key(r) THEN 0 ELSE 1

\* rows a proposed row counts towards result.rowcount (inserted or updated)
RowsAffected(rows, r) == 1

RECURSIVE ExecuteFrom(_, _, _, _, _)
\* session.execute(stmt) from row i on: st = [raised, rows, rowcount, touched].
\* A second proposed row for a key the statement already touched is an error
\* (ON CONFLICT DO UPDATE cannot affect a row a second time), as is a NULL
\* etl_run_id.
ExecuteFrom(st, dict_list, i, cols, n) ==
    IF i > n \/ st.raised THEN st
    ELSE LET r == dict_list[i]
         IN IF Key(r) \in st.touched \/ r.etl_run_id = None
            THEN [st EXCEPT !.raised = TRUE]
            ELSE ExecuteFrom([raised |-> FALSE,
                              rows |-> UpsertRow(st.rows, r, cols),
                              rowcount |-> st.rowcount + RowsAffected(st.rows, r),
                              touched |-> st.touched \cup {Key(r)}],
                             dict_list, i + 1, cols, n)

\* session.execute(stmt): the statement's outcome on the table tbl
Execute(tbl, dict_list) ==
    ExecuteFrom([raised |-> FALSE, rows |-> tbl, rowcount |-> 0, touched |-> {}],
                dict_list, 1, UpdateCols(dict_list), Len(dict_list))

\* session.commit(): the pending rows become the table
Commit(tbl, pending) == pending

\* faulty variant: the error handler leaves the pending rows in place
RollbackKeepsPending(tbl, pending) == pending

\* session.rollback(): the pending rows are dropped
Rollback(tbl, pending) == tbl

\* Where the database fails a call from outside the statement:
\* "none", "execute" (session.execute raises) or "commit" (session.commit raises)
SinkFaults == {"none", "execute", "commit"}

\* faulty variant: without the early return for an empty list, the session
\* is opened and dict_list[0] raises inside the try block
bulk_upsert_to_dbNoEmptyCheck(tbl, dict_list, f) ==
    IF dict_list = <<>>
    THEN [raised |-> TRUE, ret |-> 0, table |-> Rollback(tbl, tbl),
          ops |-> <<"session", "rollback", "close">>]
    ELSE LET ex == Execute(tbl, dict_list)
         IN IF f = "execute" \/ ex.raised
            THEN [raised |-> TRUE, ret |-> 0, table |-> Rollback(tbl, tbl),
                  ops |-> <<"session", "execute", "rollback", "close">>]
            ELSE IF f = "commit"
            THEN [raised |-> TRUE, ret |-> 0, table |-> Rollback(tbl, ex.rows),
                  ops |-> <<"session", "execute", "commit", "rollback", "close">>]
            ELSE [raised |-> FALSE, ret |-> ex.rowcount, table |-> Commit(tbl, ex.rows),
                  ops |-> <<"session", "execute", "commit", "close">>]

\* bulk_upsert_to_db(dict_list) on table tbl under database fault f:
\* [raised, ret, table, ops]; ops is the session traffic of the call
bulk_upsert_to_db(tbl, dict_list, f) ==
    IF dict_list = <<>>
    THEN [raised |-> FALSE, ret |-> 0, table |-> tbl, ops |-> <<>>]
    ELSE LET ex == Execute(tbl, dict_list)
         IN IF f = "execute" \/ ex.raised
            THEN [raised |-> TRUE, ret |-> 0, table |-> Rollback(tbl, tbl),
                  ops |-> <<"session", "execute", "rollback", "close">>]
            ELSE IF f = "commit"
            THEN [raised |-> TRUE, ret |-> 0, table |-> Rollback(tbl, ex.rows),
                  ops |-> <<"session", "execute", "commit", "rollback", "close">>]
            ELSE [raised |-> FALSE, ret |-> ex.rowcount, table |-> Commit(tbl, ex.rows),
                  ops |-> <<"session", "execute", "commit", "close">>]

----------------------------------------------------------------------------
(* The orchestrator: DailyFeatureETL.etl_all_stocks.                       *)
(* get_kline can raise (the database is unreachable): failAt is the index  *)
(* of the instrument whose fetch raises, 0 when none does.                 *)

\* DailyFeatureETL(): etl_run_id = uuid4(), no source_version, no commit_sha;
\* the n-th uuid4 drawn is Uuid(n) (its str() and the UUID column hold the same)
Uuid(n) == [k |-> "uuid", n |-> n]
DailyFeatureETL(run) == [etl_run_id |-> Uuid(run), source_version |-> None, commit_sha |-> None]

RECURSIVE EtlLoop(_, _, _, _, _, _, _, _)
\* the for loop of etl_all_stocks from instrument i on;
\* acc = [raised, all_results, calls, fetches]
EtlLoop(acc, self, now, kl, ids, i, w, failAt) ==
    IF i > Len(ids) THEN acc
    ELSE LET fw == FetchWindow(w[1], w[2])
             fetch == [stock_id |-> ids[i], start_date |-> fw[1], end_date |-> fw[2]]
         IN IF i = failAt
            THEN [acc EXCEPT !.raised = TRUE,
                             !.calls = @ \o <<[stock_id |-> ids[i], raised |-> TRUE, rows |-> <<>>]>>,
                             !.fetches = @ \o <<fetch>>]
            ELSE LET result == etl_by_stock(self, now + i, kl, ids[i], w[1], w[2])
                 IN EtlLoop([raised |-> FALSE,
                             all_results |-> acc.all_results \o result,
                             calls |-> acc.calls \o
                                 <<[stock_id |-> ids[i], raised |-> FALSE, rows |-> result]>>,
                             fetches |-> acc.fetches \o <<fetch>>],
                            self, now, kl, ids, i + 1, w, failAt)

\* faulty variant: an instrument whose processing raises is skipped and the
\* loop goes on with the next one
etl_all_stocksIsolating(self, now, kl, ids, start_date, end_date, failAt) ==
    LET out == EtlLoop([raised |-> FALSE, all_results |-> <<>>, calls |-> <<>>,
                        fetches |-> <<>>],
                       self, now, kl, ids, 1, <<start_date, end_date>>, failAt)
    IN IF out.raised
       THEN EtlLoop([out EXCEPT !.raised = FALSE], self, now, kl, ids, failAt + 1,
                    <<start_date, end_date>>, 0)
       ELSE out

\* etl_all_stocks(start_date, end_date) over the universe ids
etl_all_stocks(self, now, kl, ids, start_date, end_date, failAt) ==
    EtlLoop([raised |-> FALSE, all_results |-> <<>>, calls |-> <<>>, fetches |-> <<>>],
            self, now, kl, ids, 1, <<start_date, end_date>>, failAt)

----------------------------------------------------------------------------
(* The endpoints *)

\* a request parameter of type date
Date(o) == [k |-> "date", o |-> o]

\* str(d) if d else None
StrOrNone(d) == IF d.k = "date" THEN strftime(d.o) ELSE None

\* result[i:i+batch_size], i counted from 0
Slice(result, i) ==
    SubSeq(result, i + 1, IF i + batch_size < Len(result) THEN i + batch_size ELSE Len(result))

\* number of sink calls the endpoint loop makes for a result list
NumBatches(result) == (Len(result) + batch_size - 1) \div batch_size

RECURSIVE WriteLoop(_, _, _, _)
\* the endpoint's loop for i in range(0, len(result), batch_size) from offset i
\* on; acc = [raised, table, before, total_upserted, calls]; the database
\* fault f = [at, n] hits the n-th sink call
WriteLoop(acc, result, i, f) ==
    IF i >= Len(result) \/ acc.raised THEN acc
    ELSE LET batch == Slice(result, i)
             fault == IF f.n = i \div batch_size + 1 /\ f.at \in SinkFaults THEN f.at ELSE "none"
             up == bulk_upsert_to_db(acc.table, batch, fault)
         IN WriteLoop([raised |-> up.raised,
                       table |-> up.table,
                       before |-> acc.table,
                       total_upserted |-> acc.total_upserted + up.ret,
                       calls |-> acc.calls \o
                           <<[batch |-> batch, fault |-> fault, raised |-> up.raised,
                              ret |-> up.ret, ops |-> up.ops]>>],
                      result, i + batch_size, f)

OkResponse(upserted, rows) == [status |-> 200, upserted |-> upserted, rows |-> rows]

\* raise HTTPException(status_code=500, detail=str(e))
ErrorResponse == [status |-> 500]

----------------------------------------------------------------------------
(* Initial states: the data the external tables hold *)

\* the day the requests aim at, and the last day with a price bar
TargetDay == strptime(DateStr(3, 3))

\* day of the j-th bar of "A": the target day and the two days before it,
\* then the days max_window - 1, max_window, ... before the target day
BarDay(j) == IF j <= 3 THEN TargetDay - (j - 1) ELSE TargetDay - (max_window - 1) - (j - 4)

\* the first n bars of "A" (the kline table has gaps: non-trading days)
SparseBarsA(n) ==
    {[id |-> j, stock_id |-> "A", date |-> BarDay(j), close |-> 10 + (j % 3)] : j \in 1..n}

\* a second bar of "A" for a day that already has one (the kline table
\* declares no unique constraint on (date, stock_id))
DupBar(n) ==
    IF n >= 2
    THEN {[id |-> n + 1, stock_id |-> "A", date |-> TargetDay - 1, close |-> 13]}
    ELSE {}

\* two bars of "B"
BarsB ==
    {[id |-> MaxRows + 1 + j, stock_id |-> "B", date |-> TargetDay - 2 + j, close |-> 10 + j]
        : j \in 1..2}

NoResponse == [status |-> 0]
NoRequest == [endpoint |-> "none"]

\* no request served yet, empty feature table
Fresh ==
    /\ stock_ids = <<"A", "B">>
    /\ table = {}
    /\ pc = "idle"
    /\ req = NoRequest
    /\ response = NoResponse
    /\ fetchLog = <<>>
    /\ etlLog = <<>>
    /\ sinkLog = <<>>
    /\ tableBefore = {}
    /\ tableAtStart = {}
    /\ clock = 0
    /\ runs = 0
    /\ txn = <<>>

Init ==
    /\ \E n \in 0..MaxBars, dup \in BOOLEAN :
           kline = SparseBarsA(n) \cup (IF dup /\ n = MaxBars THEN DupBar(n) ELSE {}) \cup BarsB
    /\ Fresh

----------------------------------------------------------------------------
(* Requests *)

ReqDates == {Date(TargetDay - 2), Date(TargetDay)}

\* (start_date, end_date) of /etl_by_stock: both optional
ByStockWindows ==
    {w \in (ReqDates \cup {None}) \X (ReqDates \cup {None}) :
        w[1] # None /\ w[2] # None => w[1].o <= w[2].o}

\* (start_date, end_date) of /etl_all_stocks: both required
AllStocksWindows == {w \in ReqDates \X ReqDates : w[1].o <= w[2].o}

\* GET /etl_by_stock; f: where the database fails, if anywhere
ApiEtlByStock(stock_id, start_date, end_date, f) ==
    LET self == DailyFeatureETL(runs + 1)
        sd == StrOrNone(start_date)
        ed == StrOrNone(end_date)
        fw == FetchWindow(sd, ed)
        fetch == [stock_id |-> stock_id, start_date |-> fw[1], end_date |-> fw[2]]
        result == etl_by_stock(self, clock + 1, kline, stock_id, sd, ed)
        up == bulk_upsert_to_db(table, result, f)
    IN /\ pc = "idle"
       /\ runs < MaxRuns
       /\ f \in SinkFaults => f = "none" \/ result # <<>>
       /\ pc' = "done"
       /\ runs' = runs + 1
       /\ clock' = clock + 1
       /\ req' = [endpoint |-> "etl_by_stock", stock_id |-> stock_id,
                  start_date |-> start_date, end_date |-> end_date]
       /\ tableAtStart' = table
       /\ fetchLog' = <<fetch>>
       /\ IF f = "fetch"
          THEN /\ etlLog' = <<[stock_id |-> stock_id, raised |-> TRUE, rows |-> <<>>]>>
               /\ sinkLog' = <<>>
               /\ response' = ErrorResponse
               /\ UNCHANGED <<table, tableBefore>>
          ELSE /\ etlLog' = <<[stock_id |-> stock_id, raised |-> FALSE, rows |-> result]>>
               /\ sinkLog' = <<[batch |-> result, fault |-> f, raised |-> up.raised,
                                ret |-> up.ret, ops |-> up.ops]>>
               /\ tableBefore' = table
               /\ table' = up.table
               /\ response' = IF up.raised THEN ErrorResponse ELSE OkResponse(up.ret, result)
       /\ UNCHANGED <<txn, kline, stock_ids>>

\* faults of one /etl_all_stocks request: none, the fetch of instrument n, or
\* the execute / commit of sink call n
AllFaults ==
    {[at |-> "none", n |-> 0]}
    \cup {[at |-> "fetch", n |-> k] : k \in 1..Len(stock_ids)}
    \cup {[at |-> a, n |-> j] : a \in {"execute", "commit"}, j \in 1..MaxFaultCall}

\* faulty variant of GET /etl_all_stocks: when an instrument raises, the
\* records computed so far are written before the error is reported
ApiEtlAllStocksFlushOnError(start_date, end_date, f) ==
    LET self == DailyFeatureETL(runs + 1)
        out == etl_all_stocks(self, clock, kline, stock_ids, strftime(start_date.o),
                              strftime(end_date.o), IF f.at = "fetch" THEN f.n ELSE 0)
        wr == WriteLoop([raised |-> FALSE, table |-> table, before |-> tableBefore,
                         total_upserted |-> 0, calls |-> <<>>],
                        out.all_results, 0, f)
    IN /\ pc = "idle"
       /\ runs < MaxRuns
       /\ f.at \in {"execute", "commit"} => f.n <= NumBatches(out.all_results)
       /\ pc' = "done"
       /\ runs' = runs + 1
       /\ clock' = clock + Len(out.calls)
       /\ req' = [endpoint |-> "etl_all_stocks", start_date |-> start_date,
                  end_date |-> end_date]
       /\ tableAtStart' = table
       /\ fetchLog' = out.fetches
       /\ etlLog' = out.calls
       /\ sinkLog' = wr.calls
       /\ tableBefore' = wr.before
       /\ table' = wr.table
       /\ response' = IF out.raised \/ wr.raised THEN ErrorResponse
                      ELSE OkResponse(wr.total_upserted, out.all_results)
       /\ UNCHANGED <<txn, kline, stock_ids>>

\* GET /etl_all_stocks
ApiEtlAllStocks(start_date, end_date, f) ==
    LET self == DailyFeatureETL(runs + 1)
        out == etl_all_stocks(self, clock, kline, stock_ids, strftime(start_date.o),
                              strftime(end_date.o), IF f.at = "fetch" THEN f.n ELSE 0)
        wr == WriteLoop([raised |-> FALSE, table |-> table, before |-> tableBefore,
                         total_upserted |-> 0, calls |-> <<>>],
                        out.all_results, 0, f)
    IN /\ pc = "idle"
       /\ runs < MaxRuns
       /\ f.at \in {"execute", "commit"} => f.n <= NumBatches(out.all_results)
       /\ pc' = "done"
       /\ runs' = runs + 1
       /\ clock' = clock + Len(out.calls)
       /\ req' = [endpoint |-> "etl_all_stocks", start_date |-> start_date,
                  end_date |-> end_date]
       /\ tableAtStart' = table
       /\ fetchLog' = out.fetches
       /\ etlLog' = out.calls
       /\ IF out.raised
          THEN /\ sinkLog' = <<>>
               /\ response' = ErrorResponse
               /\ UNCHANGED <<table, tableBefore>>
          ELSE /\ sinkLog' = wr.calls
               /\ tableBefore' = wr.before
               /\ table' = wr.table
               /\ response' = IF wr.raised THEN ErrorResponse
                              ELSE OkResponse(wr.total_upserted, out.all_results)
       /\ UNCHANGED <<txn, kline, stock_ids>>

\* the response is out; the next request can be served
NextRequest ==
    /\ pc = "done"
    /\ pc' = "idle"
    /\ req' = NoRequest
    /\ response' = NoResponse
    /\ fetchLog' = <<>>
    /\ etlLog' = <<>>
    /\ sinkLog' = <<>>
    /\ tableBefore' = {}
    /\ tableAtStart' = {}
    /\ UNCHANGED <<txn, kline, stock_ids, table, clock, runs>>

Next ==
    \/ \E stock_id \in Stocks, w \in ByStockWindows, f \in SinkFaults \cup {"fetch"} :
           ApiEtlByStock(stock_id, w[1], w[2], f)
    \/ \E w \in AllStocksWindows, f \in AllFaults : ApiEtlAllStocks(w[1], w[2], f)
    \/ NextRequest

Spec == Init /\ [][Next]_vars

----------------------------------------------------------------------------
(* The orchestrator and the engine on long price series: a direct call of  *)
(* DailyFeatureETL().etl_by_stock, with no endpoint and no sink around it. *)

\* close of bar j of n: a sawtooth around 10, and on a series that fills the
\* Bollinger window a last bar far above (odd shape) or below (even shape)
CloseOf(s, j, n) ==
    IF j = n /\ n >= bb_window THEN (IF s % 2 = 1 THEN 30 ELSE 1)
    ELSE 10 + ((j * s) % 3)

\* n bars of "A" on consecutive days ending at TargetDay
BarsA(n, s) ==
    {[id |-> j, stock_id |-> "A", date |-> TargetDay - n + j, close |-> CloseOf(s, j, n)]
        : j \in 1..n}

EngineInit ==
    /\ \E n \in 0..MaxRows, s \in 1..CloseShapes, dup \in BOOLEAN :
           kline = BarsA(n, s) \cup (IF dup THEN DupBar(n) ELSE {}) \cup BarsB
    /\ Fresh

\* DailyFeatureETL().etl_by_stock(stock_id, start_date, end_date)
EtlByStockCall(stock_id, start_date, end_date) ==
    LET self == DailyFeatureETL(runs + 1)
        fw == FetchWindow(start_date, end_date)
    IN /\ pc = "idle"
       /\ pc' = "done"
       /\ runs' = runs + 1
       /\ clock' = clock + 1
       /\ req' = [endpoint |-> "none", stock_id |-> stock_id,
                  start_date |-> start_date, end_date |-> end_date]
       /\ fetchLog' = <<[stock_id |-> stock_id, start_date |-> fw[1], end_date |-> fw[2]]>>
       /\ etlLog' = <<[stock_id |-> stock_id, raised |-> FALSE,
                       rows |-> etl_by_stock(self, clock + 1, kline, stock_id,
                                             start_date, end_date)]>>
       /\ UNCHANGED <<txn, kline, stock_ids, table, response, sinkLog, tableBefore, tableAtStart>>

EngineNext ==
    \E stock_id \in Stocks, w \in ByStockWindows :
        EtlByStockCall(stock_id, StrOrNone(w[1]), StrOrNone(w[2]))

EngineSpec == EngineInit /\ [][EngineNext]_vars

----------------------------------------------------------------------------
(* The sink called directly: FeatureDaily.bulk_upsert_to_db(dict_list) on  *)
(* lists of feature records, once, twice in a row, or sliced by the        *)
(* endpoint's loop.                                                        *)

\* the v-th record for the i-th key
SinkRecord(i, v) ==
    FeatureRecord(DailyFeatureETL(v), v, IF i % 2 = 1 THEN "A" ELSE "B",
        [date |-> TargetDay - (i \div 2),
         ma5 |-> IF v % 2 = 1 THEN NaN ELSE Num(50 + v, ma_window),
         ema12 |-> Num(10 + v, 1), ema26 |-> Num(10 + v, 1),
         macd_dif |-> Num(0, 1), macd_dea |-> Num(0, 1), macd_osc |-> Num(0, 1),
         bb_ma20 |-> NaN, bb_std20 |-> NaN, bb_upper20 |-> NaN, bb_lower20 |-> NaN,
         bb_width20 |-> NaN, bb_pos20 |-> NaN,
         bb_break_up |-> Bool(FALSE), bb_break_dn |-> Bool(FALSE)])

\* lists of n records, version v, keys 1..n in order; with p > 0 the record
\* at position p is a second record for key 1
SinkList(n, v, p) ==
    [i \in 1..n |-> IF i = p THEN SinkRecord(1, v + 1) ELSE SinkRecord(i, v)]

SinkLists == {SinkList(n, v, p) : n \in 0..MaxLen, v \in {1, 2}, p \in {0} \cup 2..MaxLen}

\* feature tables the sink is called on: the first m keys hold their record
\* of version u
SinkTables == {{SinkRecord(i, u) : i \in 1..m} : m \in 0..MaxLen, u \in {1, 2}}

\* bulk_upsert_to_db(dict_list), the database failing at f
BulkUpsertCall(dict_list, f) ==
    LET up == bulk_upsert_to_db(table, dict_list, f)
    IN /\ pc = "idle"
       /\ f # "none" => dict_list # <<>>
       /\ pc' = "called"
       /\ req' = [endpoint |-> "none", sliced |-> FALSE]
       /\ sinkLog' = <<[batch |-> dict_list, fault |-> f, raised |-> up.raised,
                        ret |-> up.ret, ops |-> up.ops]>>
       /\ tableBefore' = table
       /\ tableAtStart' = table
       /\ table' = up.table
       /\ response' = NoResponse
       /\ UNCHANGED <<txn, kline, stock_ids, fetchLog, etlLog, clock, runs>>

\* the same call once more, with the list of the call before
RepeatCall(f) ==
    LET dict_list == sinkLog[1].batch
        up == bulk_upsert_to_db(table, dict_list, f)
    IN /\ pc = "called"
       /\ f # "none" => dict_list # <<>>
       /\ pc' = "done"
       /\ sinkLog' = sinkLog \o <<[batch |-> dict_list, fault |-> f, raised |-> up.raised,
                                   ret |-> up.ret, ops |-> up.ops]>>
       /\ tableBefore' = table
       /\ table' = up.table
       /\ UNCHANGED <<txn, kline, stock_ids, req, response, fetchLog, etlLog, tableAtStart,
                      clock, runs>>

\* the endpoint's loop on a list: slices of batch_size, counts summed
SlicedCall(result) ==
    LET wr == WriteLoop([raised |-> FALSE, table |-> table, before |-> table,
                         total_upserted |-> 0, calls |-> <<>>],
                        result, 0, [at |-> "none", n |-> 0])
    IN /\ pc = "idle"
       /\ pc' = "done"
       /\ req' = [endpoint |-> "none", sliced |-> TRUE, result |-> result]
       /\ sinkLog' = wr.calls
       /\ tableBefore' = wr.before
       /\ tableAtStart' = table
       /\ table' = wr.table
       /\ response' = IF wr.raised THEN ErrorResponse
                      ELSE OkResponse(wr.total_upserted, result)
       /\ UNCHANGED <<txn, kline, stock_ids, fetchLog, etlLog, clock, runs>>

SinkInit ==
    /\ kline = {}
    /\ stock_ids = <<"A", "B">>
    /\ table \in SinkTables
    /\ pc = "idle"
    /\ req = NoRequest
    /\ response = NoResponse
    /\ fetchLog = <<>>
    /\ etlLog = <<>>
    /\ sinkLog = <<>>
    /\ tableBefore = table
    /\ tableAtStart = table
    /\ clock = 0
    /\ runs = 0
    /\ txn = <<>>

SinkNext ==
    \/ \E dict_list \in SinkLists, f \in SinkFaults : BulkUpsertCall(dict_list, f)
    \/ \E f \in SinkFaults : RepeatCall(f)
    \/ \E result \in SinkLists : SlicedCall(result)

SinkSpec == SinkInit /\ [][SinkNext]_vars

----------------------------------------------------------------------------
(* Two /etl_all_stocks requests served side by side (the endpoints are     *)
(* sync handlers, run on worker threads).  Each request computes its       *)
(* records, then runs its write loop; every sink call has a session of its *)
(* own.  The database runs the statement row by row: a proposed row whose  *)
(* key another open session has written waits for that session to end     *)
(* (row lock); at commit the rows of the statement become visible.         *)

Workers == {1, 2}

IdleWorker ==
    [status |-> "idle", etl_run_id |-> None, result |-> <<>>, i |-> 0, row |-> 0,
     pending |-> {}, total_upserted |-> 0, written |-> {}, calls |-> 0]

ConcInit ==
    /\ \E n \in 0..MaxBars, dup \in BOOLEAN :
           kline = SparseBarsA(n) \cup (IF dup /\ n = MaxBars THEN DupBar(n) ELSE {}) \cup BarsB
    /\ stock_ids = <<"A", "B">>
    /\ table = {}
    /\ pc = "idle"
    /\ req = NoRequest
    /\ response = NoResponse
    /\ fetchLog = <<>>
    /\ etlLog = <<>>
    /\ sinkLog = <<>>
    /\ tableBefore = {}
    /\ tableAtStart = {}
    /\ clock = 0
    /\ runs = 0
    /\ txn = [p \in Workers |-> IdleWorker]

\* worker p takes a /etl_all_stocks request: etl = DailyFeatureETL(),
\* result = etl.etl_all_stocks(...), total_upserted = 0
ConcStart(p, start_date, end_date) ==
    LET self == DailyFeatureETL(runs + 1)
        out == etl_all_stocks(self, clock, kline, stock_ids, strftime(start_date.o),
                              strftime(end_date.o), 0)
    IN /\ txn[p].status = "idle"
       /\ runs' = runs + 1
       /\ clock' = clock + Len(out.calls)
       /\ txn' = [txn EXCEPT ![p] =
              [IdleWorker EXCEPT !.status = IF out.all_results = <<>> THEN "ok" ELSE "writing",
                                 !.etl_run_id = self.etl_run_id,
                                 !.result = out.all_results]]
       /\ UNCHANGED <<kline, stock_ids, table, pc, req, response, fetchLog, etlLog,
                      sinkLog, tableBefore, tableAtStart>>

\* the key is written by an open session of another worker
LockedByOther(p, key) == \E q \in Workers \ {p} : key \in Keys(txn[q].pending)

\* session.execute(stmt) of worker p's current batch, one proposed row: the
\* row waits while its key is locked; a second row for a key of the same
\* statement, or a NULL etl_run_id, raises: rollback, the request fails
ConcExecuteRow(p) ==
    LET batch == Slice(txn[p].result, txn[p].i)
        r == batch[txn[p].row + 1]
    IN /\ txn[p].status = "writing"
       /\ txn[p].row < Len(batch)
       /\ ~LockedByOther(p, Key(r))
       /\ txn' = [txn EXCEPT ![p] =
              IF Key(r) \in Keys(txn[p].pending) \/ r.etl_run_id = None
              THEN [@ EXCEPT !.status = "failed", !.pending = {}, !.calls = @ + 1]
              ELSE [@ EXCEPT !.row = @ + 1,
                             !.pending = @ \cup {x \in UpsertRow(table, r, UpdateCols(batch)) :
                                                     Key(x) = Key(r)}]]
       /\ UNCHANGED <<kline, stock_ids, table, pc, req, response, fetchLog, etlLog,
                      sinkLog, tableBefore, tableAtStart, clock, runs>>

\* session.commit() of worker p's current batch, then the next turn of the
\* endpoint's loop
ConcCommit(p) ==
    LET batch == Slice(txn[p].result, txn[p].i)
        kept == {x \in table : Key(x) \notin Keys(txn[p].pending)}
    IN /\ txn[p].status = "writing"
       /\ txn[p].row = Len(batch)
       /\ table' = Commit(table, kept \cup txn[p].pending)
       /\ txn' = [txn EXCEPT ![p] =
              [@ EXCEPT !.status = IF txn[p].i + batch_size >= Len(txn[p].result)
                                   THEN "ok" ELSE "writing",
                        !.i = @ + batch_size,
                        !.row = 0,
                        !.pending = {},
                        !.total_upserted = @ + Len(batch),
                        !.written = @ \cup {batch[j] : j \in 1..Len(batch)},
                        !.calls = @ + 1]]
       /\ UNCHANGED <<kline, stock_ids, pc, req, response, fetchLog, etlLog,
                      sinkLog, tableBefore, tableAtStart, clock, runs>>

ConcNext ==
    \/ \E p \in Workers, w \in AllStocksWindows : ConcStart(p, w[1], w[2])
    \/ \E p \in Workers : ConcExecuteRow(p)
    \/ \E p \in Workers : ConcCommit(p)

ConcSpec == ConcInit /\ [][ConcNext]_vars

----------------------------------------------------------------------------
(* Properties of the served request *)

Done == pc = "done"

\* the request was a single-day request (start_date == end_date, both given)
SingleDay == req.start_date # None /\ req.start_date = req.end_date

\* ordinal of a date parameter in either form (date object or date string)
Ord(d) == IF d.k = "date" THEN d.o ELSE strptime(d)

\* a well-formed date string
ValidDateStr(x) == x.k = "str" /\ x.m \in 1..12 /\ x.d \in 1..MonthDays[x.m]

\* the same optional date, as a date object or as its string
SameDate(param, str) ==
    IF param = None THEN str = None
    ELSE ValidDateStr(str) /\ strptime(str) = Ord(param)

\* bars of kline for a stock with lo <= date <= hi (a missing bound is open)
BarsBetween(stock_id, lo, hi) ==
    {r \in kline : /\ r.stock_id = stock_id
                   /\ (lo # None => r.date >= lo.o)
                   /\ (hi # None => r.date <= hi.o)}

\* trade dates of a result list
TradeDates(rows) == {rows[i].trade_date : i \in 1..Len(rows)}

\* the result list holds two records with one (stock_id, trade_date)
HasDuplicateKeys(rows) ==
    \E i, j \in 1..Len(rows) : i # j /\ Key(rows[i]) = Key(rows[j])

\* C3: a sink call that fails leaves the feature table exactly as it was
\* before the call, with the batches committed before it still in place; the
\* failure reaches the caller (the request ends in an error) and no sink call
\* follows it; a sink call that succeeds leaves every record of its batch in
\* the table.
C3_TransactionalSink ==
    Done =>
        \A i \in 1..Len(sinkLog) :
            /\ sinkLog[i].raised =>
                   /\ i = Len(sinkLog)
                   /\ table = tableBefore
                   /\ response = ErrorResponse
                   /\ i > 1 => \A j \in 1..Len(sinkLog[i - 1].batch) :
                                   sinkLog[i - 1].batch[j] \in table
            /\ (i = Len(sinkLog) /\ ~sinkLog[i].raised) =>
                   /\ response.status = 200
                   /\ \A j \in 1..Len(sinkLog[i].batch) : sinkLog[i].batch[j] \in table

\* a request whose second or later sink call failed after an earlier batch
\* of the same request changed the table
C3_Witness ==
    /\ Done
    /\ Len(sinkLog) >= 2
    /\ sinkLog[Len(sinkLog)].raised
    /\ table # tableAtStart
    /\ response = ErrorResponse

\* C4: a single-day request returns records only for the requested day, none
\* for the lookback padding.
C4_OnlyRequestedRange ==
    (Done /\ req.endpoint = "etl_by_stock" /\ SingleDay) =>
        \A i \in 1..Len(etlLog) :
            /\ TradeDates(etlLog[i].rows) \subseteq {req.start_date.o}
            /\ Len(etlLog[i].rows) <= 1

\* C5: every etl_by_stock call queries the price source exactly once; for a
\* single-day request the window is [start_date - 29 days, end_date], in every
\* other case the caller's start_date and end_date unchanged; the records
\* returned are those of the bars inside that window, bounds included.
C5_FetchWindow ==
    Done =>
        /\ Len(fetchLog) = Len(etlLog)
        /\ req.endpoint = "etl_by_stock" => Len(fetchLog) = 1
        /\ \A i \in 1..Len(fetchLog) :
               LET f == fetchLog[i]
                   lo == IF SingleDay THEN Date(Ord(req.start_date) - 29) ELSE req.start_date
               IN /\ f.stock_id = etlLog[i].stock_id
                  /\ SameDate(lo, f.start_date)
                  /\ SameDate(req.end_date, f.end_date)
                  /\ ~etlLog[i].raised =>
                         TradeDates(etlLog[i].rows) =
                             {r.date : r \in BarsBetween(f.stock_id, lo, req.end_date)}

\* a single-day request whose padded window starts on the first of two
\* neighbouring bars: the bar 29 days back is fetched, the bar 30 days back is not
C5_Witness ==
    /\ Done
    /\ SingleDay
    /\ Len(fetchLog) >= 1
    /\ fetchLog[1].stock_id = "A"
    /\ fetchLog[1].start_date = DateStr(2, 2)
    /\ ~etlLog[1].raised
    /\ TargetDay - 29 \in TradeDates(etlLog[1].rows)
    /\ TargetDay - 30 \notin TradeDates(etlLog[1].rows)
    /\ \E r \in kline : r.stock_id = "A" /\ r.date = TargetDay - 30

\* C8: a fetched price series with two bars of one date makes etl_by_stock
\* fail before computing: no record list with a repeated key is returned or
\* handed to the sink.
C8_RejectsDuplicateDates ==
    Done =>
        /\ \A i \in 1..Len(etlLog) : ~HasDuplicateKeys(etlLog[i].rows)
        /\ \A i \in 1..Len(sinkLog) : ~HasDuplicateKeys(sinkLog[i].batch)

\* the run of the request served, as stored in its records
ThisRun == Uuid(runs)

\* C9 as stated: when instrument k raises in an all-stocks run, the records
\* of the instruments before k are in the feature table when the call fails.
C9_EarlierInstrumentsWritten ==
    (Done /\ req.endpoint = "etl_all_stocks") =>
        \A k \in 1..Len(etlLog) :
            etlLog[k].raised =>
                \A j \in 1..(k - 1) : \A i \in 1..Len(etlLog[j].rows) :
                    etlLog[j].rows[i] \in table

\* C9 amended: when instrument k raises in an all-stocks run the call reports
\* failure and nothing of the run was written: the sink was not invoked and
\* the feature table is as it was when the request started.  Writes start
\* after every instrument was computed; when sink call j fails, the keys of
\* the batches before j hold rows of this run.
C9_NothingWrittenOnComputeFailure ==
    (Done /\ req.endpoint = "etl_all_stocks") =>
        /\ \A k \in 1..Len(etlLog) :
               etlLog[k].raised =>
                   /\ response = ErrorResponse
                   /\ sinkLog = <<>>
                   /\ table = tableAtStart
                   /\ \A r \in table : r.etl_run_id # ThisRun
        /\ \A j \in 1..Len(sinkLog) :
               sinkLog[j].raised =>
                   /\ response = ErrorResponse
                   /\ \A b \in 1..(j - 1) : \A i \in 1..Len(sinkLog[b].batch) :
                          \E x \in table : /\ Key(x) = Key(sinkLog[b].batch[i])
                                           /\ x.etl_run_id = ThisRun

\* an all-stocks run that failed at the second instrument after the first
\* instrument produced records
C9_Witness ==
    /\ Done
    /\ req.endpoint = "etl_all_stocks"
    /\ Len(etlLog) = 2
    /\ etlLog[2].raised
    /\ etlLog[1].rows # <<>>
    /\ response = ErrorResponse

----------------------------------------------------------------------------
(* Properties of the records etl_by_stock returns (EngineSpec) *)

BollingerFields == {"bb_ma20", "bb_std20", "bb_upper20", "bb_lower20", "bb_width20", "bb_pos20"}

\* C6: bb_break_up / bb_break_dn are null on every row whose Bollinger band
\* is null, and true or false only on rows whose band is defined.
C6_FlagsNullWithoutBand ==
    Done =>
        \A c \in 1..Len(etlLog) : \A i \in 1..Len(etlLog[c].rows) :
            LET r == etlLog[c].rows[i]
            IN /\ r.bb_upper20 = None => r.bb_break_up = None
               /\ r.bb_lower20 = None => r.bb_break_dn = None
               /\ r.bb_upper20 # None => r.bb_break_up.k = "bool"
               /\ r.bb_lower20 # None => r.bb_break_dn.k = "bool"

----------------------------------------------------------------------------
(* Properties of the sink called directly (SinkSpec) *)

BatchKeys(batch) == {Key(batch[i]) : i \in 1..Len(batch)}

\* the latest two sink calls got the same non-empty list, the database sound
TwiceInARow ==
    /\ pc = "done"
    /\ ~req.sliced
    /\ Len(sinkLog) = 2
    /\ sinkLog[1].batch = sinkLog[2].batch
    /\ sinkLog[1].batch # <<>>
    /\ sinkLog[1].fault = "none"
    /\ sinkLog[2].fault = "none"

\* C1: the sink called twice in a row with one non-empty list ends the same
\* way both times, with the same written-row count, and the feature table
\* after the second call is the table after the first.
C1_Idempotent ==
    TwiceInARow =>
        /\ sinkLog[1].raised = sinkLog[2].raised
        /\ sinkLog[1].ret = sinkLog[2].ret
        /\ ~sinkLog[1].raised => sinkLog[1].ret = Len(sinkLog[1].batch)
        /\ table = tableBefore

\* two calls with one list that returned, the first having inserted rows and
\* the second having found every key taken
C1_Witness ==
    /\ TwiceInARow
    /\ ~sinkLog[1].raised
    /\ ~sinkLog[2].raised
    /\ Len(sinkLog[1].batch) > 1
    /\ tableAtStart # tableBefore
    /\ BatchKeys(sinkLog[1].batch) \cap Keys(tableAtStart) = {}

KeyUnique == \A x, y \in table : Key(x) = Key(y) => x = y

\* a step keeps every key of the table and adds only keys of the lists written
KeysKept ==
    /\ Keys(table) \subseteq Keys(table')
    /\ \A x \in table' : Key(x) \in Keys(table) \/
           \E c \in 1..Len(sinkLog') : Key(x) \in BatchKeys(sinkLog'[c].batch)

\* C2: the feature table never holds two rows with one (stock_id,
\* trade_date), whatever sink calls of whatever requests succeeded or failed,
\* and a call never removes or renames a key that is in the table.
C2_KeyUnique == []KeyUnique /\ [][KeysKept]_vars

\* the second request rewrote a key the first one had written, and one of its
\* sink calls failed
C2_Witness ==
    /\ Done
    /\ runs = 2
    /\ Cardinality(table) > 1
    /\ \E x \in table : x.etl_run_id = Uuid(2) /\ Key(x) \in Keys(tableAtStart)
    /\ \E c \in 1..Len(sinkLog) : sinkLog[c].raised

\* C10: a list longer than batch_size, sliced by the endpoint's loop, gives
\* the total count and the table that one call with the whole list gives.
C10_BatchSizeInvariant ==
    (pc = "done" /\ req.sliced /\ Len(req.result) > batch_size) =>
        LET whole == bulk_upsert_to_db(tableAtStart, req.result, "none")
        IN /\ whole.raised = (response = ErrorResponse)
           /\ ~whole.raised => (response.upserted = whole.ret /\ table = whole.table)
           /\ whole.raised => table = tableAtStart

\* the latest sink call, and whether it wrote (non-empty list, returned)
LastCall == sinkLog[Len(sinkLog)]

Wrote == sinkLog # <<>> /\ ~LastCall.raised /\ LastCall.batch # <<>>

\* the columns of the feature table that are not part of the key
NonKeyCols(r) == DOMAIN r \ KeyCols

\* C12: after a sink call that returned, every key of the batch that was
\* absent holds the incoming record, every key of the batch that existed
\* holds the incoming value in every non-key column (a null too), and the
\* rows of the other keys are as they were before the call.
C12_WholeRowLastWriterWins ==
    Wrote =>
        /\ \A i \in 1..Len(LastCall.batch) :
               LET r == LastCall.batch[i]
               IN /\ Key(r) \notin Keys(tableBefore) => r \in table
                  /\ Key(r) \in Keys(tableBefore) =>
                         \E x \in table :
                             /\ Key(x) = Key(r)
                             /\ \A c \in NonKeyCols(x) : x[c] = r[c]
        /\ \A x \in tableBefore : Key(x) \notin BatchKeys(LastCall.batch) => x \in table
        /\ \A x \in table : Key(x) \notin BatchKeys(LastCall.batch) => x \in tableBefore

\* one returned call inserted a key, overwrote a stored ma5 with a null and
\* left a row of another key alone
C12_Witness ==
    /\ Wrote
    /\ \E i \in 1..Len(LastCall.batch) : Key(LastCall.batch[i]) \notin Keys(tableBefore)
    /\ \E i \in 1..Len(LastCall.batch) : \E x \in tableBefore :
           /\ Key(x) = Key(LastCall.batch[i])
           /\ x.ma5 # None
           /\ LastCall.batch[i].ma5 = None
    /\ \E x \in tableBefore : Key(x) \notin BatchKeys(LastCall.batch)

\* C14: a sink call with an empty list returns 0 without raising and does no
\* I/O: no session is opened, no statement executed, nothing committed, and
\* the feature table is as it was before the call.
C14_EmptyBatchNoIO ==
    \A c \in 1..Len(sinkLog) :
        sinkLog[c].batch = <<>> =>
            /\ ~sinkLog[c].raised
            /\ sinkLog[c].ret = 0
            /\ sinkLog[c].ops = <<>>
            /\ c = Len(sinkLog) => table = tableBefore

\* the sink was called with an empty list on a table that holds rows
C14_Witness ==
    /\ sinkLog # <<>>
    /\ LastCall.batch = <<>>
    /\ table # {}

\* the bars of the kline table inside the window of the k-th fetch
SeriesOf(k) ==
    {r \in kline :
        /\ r.stock_id = fetchLog[k].stock_id
        /\ (fetchLog[k].start_date # None => r.date >= Ord(fetchLog[k].start_date))
        /\ (fetchLog[k].end_date # None => r.date <= Ord(fetchLog[k].end_date))}

\* the k-th etl_by_stock call of the request got an empty price series
NoData(k) == ~etlLog[k].raised /\ SeriesOf(k) = {}

\* sink calls of the request whose batch holds a record of the stock
SinkCallsFor(stock_id) ==
    {c \in 1..Len(sinkLog) :
        \E i \in 1..Len(sinkLog[c].batch) : sinkLog[c].batch[i].stock_id = stock_id}

\* C13 as stated: an instrument whose (padded) window holds no bar gets an
\* empty list from etl_by_stock, and the request makes no sink call for it.
C13_SinkNeverInvoked ==
    Done =>
        \A k \in 1..Len(etlLog) :
            NoData(k) =>
                /\ etlLog[k].rows = <<>>
                /\ req.endpoint = "etl_by_stock" => sinkLog = <<>>
                /\ req.endpoint = "etl_all_stocks" => SinkCallsFor(etlLog[k].stock_id) = {}

\* C13 amended: an instrument whose (padded) window holds no bar gets an
\* empty list from etl_by_stock and no row of it is written.  /etl_by_stock
\* still calls the sink once, with the empty list: the call returns 0 without
\* I/O and the answer is 200 with upserted 0 and no rows.  /etl_all_stocks
\* makes no sink call whose batch holds a record of the instrument, and no
\* sink call at all when every instrument is without data.
C13_NoDataNothingWritten ==
    Done =>
        \A k \in 1..Len(etlLog) :
            NoData(k) =>
                /\ etlLog[k].rows = <<>>
                /\ {x \in table : x.stock_id = etlLog[k].stock_id} =
                       {x \in tableAtStart : x.stock_id = etlLog[k].stock_id}
                /\ req.endpoint = "etl_by_stock" =>
                       /\ Len(sinkLog) = 1
                       /\ sinkLog[1].batch = <<>>
                       /\ sinkLog[1].ops = <<>>
                       /\ response = OkResponse(0, <<>>)
                /\ req.endpoint = "etl_all_stocks" =>
                       /\ SinkCallsFor(etlLog[k].stock_id) = {}
                       /\ \A c \in 1..Len(sinkLog) : sinkLog[c].batch # <<>>
                       /\ (\A j \in 1..Len(etlLog) : NoData(j)) =>
                              sinkLog = <<>> /\ response = OkResponse(0, <<>>)

\* a /etl_by_stock request for an instrument that has bars, none of them in
\* the padded window, on a feature table that holds rows of the instrument
C13_Witness ==
    /\ Done
    /\ req.endpoint = "etl_by_stock"
    /\ NoData(1)
    /\ \E r \in kline : r.stock_id = req.stock_id
    /\ \E x \in table : x.stock_id = req.stock_id
    /\ response.status = 200

RECURSIVE ConcatRows(_, _)
\* the rows of the first n etl_by_stock calls of the request, call after call
ConcatRows(calls, n) ==
    IF n = 0 THEN <<>> ELSE ConcatRows(calls, n - 1) \o calls[n].rows

RECURSIVE ConcatBatches(_, _)
\* the records handed to the first n sink calls of the request
ConcatBatches(calls, n) ==
    IF n = 0 THEN <<>> ELSE ConcatBatches(calls, n - 1) \o calls[n].batch

AscendingDates(rows) ==
    \A a, b \in 1..Len(rows) : a < b => rows[a].trade_date <= rows[b].trade_date

\* C15: an all-stocks run calls etl_by_stock once per identifier of the
\* universe, in the universe's order, and stops at the first call that
\* raises, the request then failing without a result; when none raises its
\* result is the calls' record lists one after the other, each instrument's
\* records in ascending trade-date order.
C15_OrchestrationOrder ==
    (Done /\ req.endpoint = "etl_all_stocks") =>
        LET result == ConcatRows(etlLog, Len(etlLog))
            handed == ConcatBatches(sinkLog, Len(sinkLog))
        IN /\ Len(etlLog) <= Len(stock_ids)
           /\ \A k \in 1..Len(etlLog) :
                  /\ etlLog[k].stock_id = stock_ids[k]
                  /\ fetchLog[k].stock_id = stock_ids[k]
                  /\ AscendingDates(etlLog[k].rows)
                  /\ \A i \in 1..Len(etlLog[k].rows) :
                         etlLog[k].rows[i].stock_id = stock_ids[k]
                  /\ etlLog[k].raised =>
                         /\ k = Len(etlLog)
                         /\ response = ErrorResponse
                         /\ handed = <<>>
           /\ (\A k \in 1..Len(etlLog) : ~etlLog[k].raised) =>
                  /\ Len(etlLog) = Len(stock_ids)
                  /\ handed = SubSeq(result, 1, Len(handed))
                  /\ response.status = 200 => response.rows = result

\* an all-stocks run over two instruments that both produced records
C15_Witness ==
    /\ Done
    /\ req.endpoint = "etl_all_stocks"
    /\ response.status = 200
    /\ Len(etlLog) = 2
    /\ Len(etlLog[1].rows) > 1
    /\ Len(etlLog[2].rows) > 1
    /\ Len(response.rows) = Len(etlLog[1].rows) + Len(etlLog[2].rows)

\* the row of the feature table that holds the key of record r
RowOf(r) == CHOOSE x \in table : Key(x) = Key(r)

\* C16: a record upserted for a key carries its created_at into the table
\* together with updated_at and etl_run_id; a row that existed when the
\* request started loses its created_at to the later one of the run that
\* rewrote it.
C16_CreatedAtReplaced ==
    Done =>
        \A c \in 1..Len(sinkLog) :
            ~sinkLog[c].raised =>
                \A i \in 1..Len(sinkLog[c].batch) :
                    LET r == sinkLog[c].batch[i]
                    IN /\ Key(r) \in Keys(table)
                       /\ RowOf(r).created_at = r.created_at
                       /\ RowOf(r).updated_at = r.updated_at
                       /\ RowOf(r).etl_run_id = r.etl_run_id
                       /\ RowOf(r).etl_run_id = ThisRun
                       /\ \A y \in tableAtStart :
                              Key(y) = Key(r) => /\ y.etl_run_id # ThisRun
                                                 /\ y.created_at < RowOf(r).created_at

\* the second request rewrote a row the first request had created
C16_Witness ==
    /\ Done
    /\ runs = 2
    /\ Wrote
    /\ \E y \in tableAtStart : \E x \in table :
           /\ Key(x) = Key(y)
           /\ y.etl_run_id = Uuid(1)
           /\ x.etl_run_id = Uuid(2)
           /\ x.created_at > y.created_at

\* both concurrent requests have ended, well or not
BothFinished == \A p \in Workers : txn[p].status \in {"ok", "failed"}

\* keys written by the committed batches of worker p
Touched(p) == Keys(txn[p].written)

\* C11: when two runs whose batches interleave have both ended, every key a
\* committed batch wrote holds one row, and that row is, column for column,
\* a record that one of the two runs wrote for the key (records of different
\* runs differ in etl_run_id, so it is of one run only).
C11_ConcurrentFinalState ==
    BothFinished =>
        /\ KeyUnique
        /\ Keys(table) = UNION {Touched(p) : p \in Workers}
        /\ \A x \in table :
               /\ \E p \in Workers : x \in txn[p].written
               /\ \A p, q \in Workers :
                      (x \in txn[p].written /\ x \in txn[q].written) => p = q

\* both runs ended well after writing the same keys in several batches each,
\* and the feature table holds rows of both runs
C11_Witness ==
    /\ BothFinished
    /\ \A p \in Workers : txn[p].status = "ok" /\ txn[p].calls >= 2
    /\ Touched(1) \cap Touched(2) # {}
    /\ \E x, y \in table : x.etl_run_id # y.etl_run_id

====
